---- MODULE Spec2Model ----
(***************************************************************************)
(* A model of backend/main.py of the BI agent chatbot: the dataset cache   *)
(* (get_df), the last-quarter helper (parse_last_quarter) and the          *)
(* intent router and aggregation engine (route_question), run by any       *)
(* number of concurrent /ask requests.                                     *)
(*                                                                         *)
(* Text is modelled as sequences of one-character strings, so that         *)
(* lower(), title(), substring tests and the regular expression            *)
(* rvp\s+([a-zA-Z]+) are computed character by character.  Amounts are     *)
(* fixed-point numbers in thousandths (1234 is 1.234), so that rounding    *)
(* to 2 decimal places is a real conversion.  An Optional value is None    *)
(* or Some(x).                                                             *)
(***************************************************************************)
EXTENDS Integers, Sequences, FiniteSets, TLC

VARIABLES
    source,   \* the rows the data source (CSV file or warehouse view) holds
    today,    \* date.today()
    cache,    \* _DATA_CACHE: None, or Some(id of a DataFrame on the heap)
    heap,     \* the DataFrames alive in the process: id -> sequence of rows
    loads,    \* how many times load_data has been invoked
    req,      \* the /ask requests: request -> its position and locals
    ref,      \* the argument of a direct parse_last_quarter(ref) call
    lq        \* what that call returned: None, or Some(<<start, end>>)

vars == <<source, today, cache, heap, loads, req, ref, lq>>

None == <<>>
Some(x) == <<x>>
Get(o) == o[1]

-----------------------------------------------------------------------------
(* Bounds of the model.                                                    *)

\* Requests that run route_question concurrently.
NumRequests == 2
\* Fragments a question of the single-request specification is built from.
MaxFrags == 2
\* Rows of the data source in the single-request specification.
MaxRows == 3
\* Rows of the data source in the concurrent specification.
MaxRowsConc == 2
\* Reference dates of parse_last_quarter range over FirstYear..LastYear.
FirstYear == 2023
LastYear == 2025

-----------------------------------------------------------------------------
(* Characters and strings: str.lower, str.title, `in`, str().              *)

UpperChars == <<"A","B","C","D","E","F","G","H","I","J","K","L","M",
                "N","O","P","Q","R","S","T","U","V","W","X","Y","Z">>
LowerChars == <<"a","b","c","d","e","f","g","h","i","j","k","l","m",
                "n","o","p","q","r","s","t","u","v","w","x","y","z">>
DigitChars == <<"0","1","2","3","4","5","6","7","8","9">>

UpperSet == { UpperChars[i] : i \in 1..26 }
LowerSet == { LowerChars[i] : i \in 1..26 }
IsUpper(c) == c \in UpperSet
IsLower(c) == c \in LowerSet
\* [a-zA-Z]
IsAlpha(c) == IsUpper(c) \/ IsLower(c)
\* \s (the questions of the model hold no other white space than the blank)
IsSpace(c) == c = " "

LowerChar(c) == IF IsUpper(c) THEN LowerChars[CHOOSE i \in 1..26 : UpperChars[i] = c] ELSE c
UpperChar(c) == IF IsLower(c) THEN UpperChars[CHOOSE i \in 1..26 : LowerChars[i] = c] ELSE c

\* str.lower()
Lower(s) == [i \in 1..Len(s) |-> LowerChar(s[i])]

\* str.title(): a letter that follows a non-letter is upper-cased, any other
\* letter is lower-cased.
Title(s) ==
    [i \in 1..Len(s) |->
        IF i = 1 \/ ~IsAlpha(s[i - 1]) THEN UpperChar(s[i]) ELSE LowerChar(s[i])]

\* str.replace("_", " ")
ReplaceUnderscore(s) == [i \in 1..Len(s) |-> IF s[i] = "_" THEN " " ELSE s[i]]

\* p in s
Contains(s, p) ==
    \E i \in 1..(Len(s) - Len(p) + 1) : \A k \in 1..Len(p) : s[i + k - 1] = p[k]

\* s.endswith(p)
EndsWith(s, p) ==
    Len(s) >= Len(p) /\ SubSeq(s, Len(s) - Len(p) + 1, Len(s)) = p

\* str(n) of a non-negative integer
RECURSIVE IntStr(_)
IntStr(n) ==
    IF n < 10 THEN <<DigitChars[n + 1]>>
    ELSE IntStr(n \div 10) \o <<DigitChars[(n % 10) + 1]>>

\* " ".join(bits)
RECURSIVE Join(_)
Join(bits) ==
    IF Len(bits) = 0 THEN <<>>
    ELSE IF Len(bits) = 1 THEN bits[1]
    ELSE bits[1] \o <<" ">> \o Join(Tail(bits))

-----------------------------------------------------------------------------
(* Dates: datetime.date and parse_last_quarter.                            *)

Date(y, m, d) == [year |-> y, month |-> m, day |-> d]

IsLeap(y) == y % 4 = 0 /\ (y % 100 # 0 \/ y % 400 = 0)

\* The calendar's month lengths (what datetime.date accepts).
DaysInMonth(y, m) ==
    IF m = 2 THEN (IF IsLeap(y) THEN 29 ELSE 28)
    ELSE IF m \in {4, 6, 9, 11} THEN 30 ELSE 31

\* date <= date
DateLE(a, b) ==
    a.year * 10000 + a.month * 100 + a.day <= b.year * 10000 + b.month * 100 + b.day

\* A plausible slip in the end-day table: March given 30 days.
QuarterEndDayMarch30(em, year) ==
    IF em \in {1, 5, 7, 8, 10, 12} THEN 31
    ELSE IF em = 2 THEN (IF IsLeap(year) THEN 29 ELSE 28)
    ELSE 30

\* ed, the last day of the quarter's third month em.
QuarterEndDay(em, year) ==
    IF em \in {1, 3, 5, 7, 8, 10, 12} THEN 31
    ELSE IF em = 2 THEN (IF IsLeap(year) THEN 29 ELSE 28)
    ELSE 30

\* parse_last_quarter(ref): ref is None (then date.today() is used) or Some(date).
ParseLastQuarter(r, now) ==
    LET d == IF r = None THEN now ELSE Get(r)
        q == ((d.month - 1) \div 3) + 1
        last_q == IF q > 1 THEN q - 1 ELSE 4
        year == IF q > 1 THEN d.year ELSE d.year - 1
        start_month == 3 * (last_q - 1) + 1
        start == Date(year, start_month, 1)
        em == start_month + 2
        end == IF start_month \in {1, 4, 7, 10}
               THEN Date(year, em, QuarterEndDay(em, year))
               ELSE start
    IN <<start, end>>

\* The reference dates of the model: every calendar date of FirstYear..LastYear.
RefDates ==
    { dt \in { Date(y, m, d) : y \in FirstYear..LastYear, m \in 1..12, d \in 1..31 } :
        dt.day <= DaysInMonth(dt.year, dt.month) }

-----------------------------------------------------------------------------
(* The words route_question looks for, and the names it emits.              *)

P_by_fund_type == <<"b","y"," ","f","u","n","d"," ","t","y","p","e">>
P_by_wholesaler == <<"b","y"," ","w","h","o","l","e","s","a","l","e","r">>
P_by_advisor == <<"b","y"," ","a","d","v","i","s","o","r">>
P_by_mandate == <<"b","y"," ","m","a","n","d","a","t","e">>
P_by_mandate_name == <<"b","y"," ","m","a","n","d","a","t","e"," ","n","a","m","e">>
P_trend == <<"t","r","e","n","d">>
P_over_time == <<"o","v","e","r"," ","t","i","m","e">>
P_by_month == <<"b","y"," ","m","o","n","t","h">>
P_redemption == <<"r","e","d","e","m","p","t","i","o","n">>
P_purchase == <<"p","u","r","c","h","a","s","e">>
P_asset == <<"a","s","s","e","t">>
P_last_quarter == <<"l","a","s","t"," ","q","u","a","r","t","e","r">>
P_past_quarter == <<"p","a","s","t"," ","q","u","a","r","t","e","r">>
P_rvp == <<"r","v","p">>

S_redemptions == <<"r","e","d","e","m","p","t","i","o","n","s">>
S_purchases == <<"p","u","r","c","h","a","s","e","s">>
S_assets == <<"a","s","s","e","t","s">>
S_fund_type == <<"f","u","n","d","_","t","y","p","e">>
S_wholesaler == <<"w","h","o","l","e","s","a","l","e","r">>
S_advisor == <<"a","d","v","i","s","o","r">>
S_mandate_name == <<"m","a","n","d","a","t","e","_","n","a","m","e">>
S_for_RVP == <<"f","o","r"," ","R","V","P"," ">>
S_Last_Quarter == <<"(","L","a","s","t"," ","Q","u","a","r","t","e","r",")">>
S_by == <<"b","y"," ">>
S_Monthly == <<" ","(","M","o","n","t","h","l","y",")">>
S_eq == <<" ","="," ">>

-----------------------------------------------------------------------------
(* Intent: entity filter, time window, grouping, metric, trend.            *)

\* The end of the longest run of characters satisfying P that starts at i
\* (i - 1 when s[i] does not satisfy P).
RunEnd(s, i, P(_)) ==
    CHOOSE j \in (i - 1)..Len(s) :
        /\ \A k \in i..j : P(s[k])
        /\ (j = Len(s) \/ ~P(s[j + 1]))

\* Whether rvp\s+([a-zA-Z]+) matches s at position i.
RvpMatchAt(s, i) ==
    /\ i + 2 <= Len(s)
    /\ s[i] = "r" /\ s[i + 1] = "v" /\ s[i + 2] = "p"
    /\ LET w == RunEnd(s, i + 3, IsSpace)
       IN w >= i + 3 /\ w + 1 <= Len(s) /\ IsAlpha(s[w + 1])

\* re.search(r"rvp\s+([a-zA-Z]+)", s): None, or Some(group 1 of the leftmost match).
RvpSearch(s) ==
    LET matches == { i \in 1..Len(s) : RvpMatchAt(s, i) }
    IN IF matches # {}
       THEN LET i == CHOOSE k \in matches : \A l \in matches : k <= l
                w == RunEnd(s, i + 3, IsSpace)
            IN Some(SubSeq(s, w + 1, RunEnd(s, w + 1, IsAlpha)))
       ELSE None

\* A value of the user context (Any): a string or an integer.
StrVal(s) == [t |-> "str", s |-> s, n |-> 0]
IntVal(n) == [t |-> "int", s |-> <<>>, n |-> n]
\* bool(v)
Truthy(v) == IF v.t = "str" THEN Len(v.s) > 0 ELSE v.n # 0
\* str(v)
Str(v) == IF v.t = "str" THEN v.s ELSE IntStr(v.n)

\* user_ctx.get("rvp"): None when the key is missing.
CtxGet(d, k) == IF k \in DOMAIN d THEN Some(d[k]) ELSE None

\* A plausible slip: the context wins over the question.
ResolveRvpContextFirst(q_low, user_ctx) ==
    IF /\ user_ctx # None
       /\ DOMAIN Get(user_ctx) # {}
       /\ CtxGet(Get(user_ctx), "rvp") # None
       /\ Truthy(Get(CtxGet(Get(user_ctx), "rvp")))
    THEN Some(Str(Get(CtxGet(Get(user_ctx), "rvp"))))
    ELSE IF RvpSearch(q_low) # None THEN Some(Title(Get(RvpSearch(q_low))))
    ELSE None

\* rvp: None, or Some(the region owner to filter by).
ResolveRvp(q_low, user_ctx) ==
    LET m == RvpSearch(q_low)
    IN IF m # None THEN Some(Title(Get(m)))
       ELSE IF /\ user_ctx # None
               /\ DOMAIN Get(user_ctx) # {}
               /\ CtxGet(Get(user_ctx), "rvp") # None
               /\ Truthy(Get(CtxGet(Get(user_ctx), "rvp")))
            THEN Some(Str(Get(CtxGet(Get(user_ctx), "rvp"))))
            ELSE None

\* `if rvp:` -- a filter is applied when rvp is a non-empty string.
RvpSet(rvp) == rvp # None /\ Len(Get(rvp)) > 0

\* df["rvp"].str.lower() == rvp.lower(), for one row.
RvpMask(row, rvp) == Lower(row.rvp) = Lower(Get(rvp))

\* "last quarter" in q_low or "past quarter" in q_low
WantsWindow(q_low) == Contains(q_low, P_last_quarter) \/ Contains(q_low, P_past_quarter)

\* (date >= start) & (date <= end), for one row.
WindowMask(row, start, end) == DateLE(start, row.date) /\ DateLE(row.date, end)

\* group_field: None, or Some(column name).
GroupField(q_low) ==
    IF Contains(q_low, P_by_fund_type) THEN Some(S_fund_type)
    ELSE IF Contains(q_low, P_by_wholesaler) THEN Some(S_wholesaler)
    ELSE IF Contains(q_low, P_by_advisor) THEN Some(S_advisor)
    ELSE IF Contains(q_low, P_by_mandate) \/ Contains(q_low, P_by_mandate_name)
         THEN Some(S_mandate_name)
    ELSE None

\* A plausible slip: "purchase" tested before "redemption".
MetricPurchaseFirst(q_low) ==
    IF Contains(q_low, P_purchase) THEN S_purchases
    ELSE IF Contains(q_low, P_redemption) THEN S_redemptions
    ELSE IF Contains(q_low, P_asset) THEN S_assets
    ELSE S_purchases

\* metric
Metric(q_low) ==
    IF Contains(q_low, P_redemption) THEN S_redemptions
    ELSE IF Contains(q_low, P_purchase) THEN S_purchases
    ELSE IF Contains(q_low, P_asset) THEN S_assets
    ELSE S_purchases

\* "trend" in q_low or "over time" in q_low or "by month" in q_low
WantsTrend(q_low) ==
    Contains(q_low, P_trend) \/ Contains(q_low, P_over_time) \/ Contains(q_low, P_by_month)

\* title
TitleOf(q_low, rvp, group_field, metric) ==
    Join(<<Title(metric)>>
         \o (IF RvpSet(rvp) THEN <<S_for_RVP \o Get(rvp)>> ELSE <<>>)
         \o (IF WantsWindow(q_low) THEN <<S_Last_Quarter>> ELSE <<>>)
         \o (IF group_field # None
             THEN <<S_by \o Title(ReplaceUnderscore(Get(group_field)))>>
             ELSE <<>>))

-----------------------------------------------------------------------------
(* Aggregation: pandas on a DataFrame, a sequence of rows.                 *)

\* row[metric]
MetricOf(row, metric) ==
    IF metric = S_redemptions THEN row.redemptions
    ELSE IF metric = S_assets THEN row.assets
    ELSE row.purchases

\* row[group_field]
FieldOf(row, field) ==
    IF field = S_fund_type THEN row.fund_type
    ELSE IF field = S_wholesaler THEN row.wholesaler
    ELSE IF field = S_advisor THEN row.advisor
    ELSE row.mandate_name

\* df[mask]: the rows that satisfy Keep, in order.
Select(rows, Keep(_)) == SelectSeq(rows, Keep)

\* df[metric].sum()
RECURSIVE SumMetric(_, _)
SumMetric(rows, metric) ==
    IF Len(rows) = 0 THEN 0
    ELSE MetricOf(Head(rows), metric) + SumMetric(Tail(rows), metric)

RECURSIVE SumSeq(_)
SumSeq(xs) == IF Len(xs) = 0 THEN 0 ELSE Head(xs) + SumSeq(Tail(xs))

\* round(2) and the :.2f format: to the nearest hundredth, halves to even.
Round2(v) ==
    LET q == v \div 10
        r == v % 10
    IN IF r < 5 THEN q * 10
       ELSE IF r > 5 THEN (q + 1) * 10
       ELSE IF q % 2 = 0 THEN q * 10 ELSE (q + 1) * 10

\* df.groupby(group_field)[metric].sum(): group value -> sum.
GroupBySum(rows, field, metric) ==
    [k \in { FieldOf(rows[i], field) : i \in 1..Len(rows) } |->
        SumMetric(Select(rows, LAMBDA row : FieldOf(row, field) = k), metric)]

\* A plausible slip: ascending=False left out.
SortValuesAscending(agg) ==
    LET n == Cardinality(DOMAIN agg)
    IN { o \in [1..n -> DOMAIN agg] :
            /\ \A i, j \in 1..n : i # j => o[i] # o[j]
            /\ \A i \in 1..(n - 1) : agg[o[i]] <= agg[o[i + 1]] }

\* sort_values(metric, ascending=False): the orders the sort may leave the groups
\* in (the default sort is not stable: groups of equal sum come in any order).
SortValues(agg) ==
    LET n == Cardinality(DOMAIN agg)
    IN { o \in [1..n -> DOMAIN agg] :
            /\ \A i, j \in 1..n : i # j => o[i] # o[j]
            /\ \A i \in 1..(n - 1) : agg[o[i]] >= agg[o[i + 1]] }

\* The month a date lies in, counted from year 0.
MonthIdx(d) == d.year * 12 + (d.month - 1)

\* strftime("%Y-%m") of the month numbered k.
Strftime(k) ==
    LET y == k \div 12
        m == (k % 12) + 1
    IN IntStr(y) \o <<"-">> \o (IF m < 10 THEN <<"0">> ELSE <<>>) \o IntStr(m)

\* A plausible slip: one bucket per month that has rows (a group-by), no bucket
\* for a month without rows.
ResampleNoGapFill(rows, metric) ==
    LET months == { MonthIdx(rows[i].date) : i \in 1..Len(rows) }
        n == Cardinality(months)
        nth(i) == CHOOSE k \in months : Cardinality({ l \in months : l < k }) = i - 1
    IN [i \in 1..n |->
           [month |-> nth(i),
            value |-> SumMetric(Select(rows, LAMBDA row : MonthIdx(row.date) = nth(i)), metric)]]

\* df.resample("M", on="date")[metric].sum(): one bucket per calendar month from
\* the earliest to the latest month of the rows, in order; no bucket for no rows.
Resample(rows, metric) ==
    IF Len(rows) = 0 THEN <<>>
    ELSE LET months == { MonthIdx(rows[i].date) : i \in 1..Len(rows) }
             lo == CHOOSE k \in months : \A l \in months : k <= l
             hi == CHOOSE k \in months : \A l \in months : k >= l
         IN [i \in 1..(hi - lo + 1) |->
                [month |-> lo + i - 1,
                 value |-> SumMetric(
                     Select(rows, LAMBDA row : MonthIdx(row.date) = lo + i - 1), metric)]]

\* The digits of n in groups of three: the "," of the format.
RECURSIVE Thousands(_)
Thousands(n) ==
    IF n < 1000 THEN IntStr(n)
    ELSE Thousands(n \div 1000) \o <<",">>
         \o (IF n % 1000 < 100 THEN <<"0">> ELSE <<>>)
         \o (IF n % 1000 < 10 THEN <<"0">> ELSE <<>>)
         \o IntStr(n % 1000)

\* f"{total:,.2f}"
Format2(v) ==
    LET cents == Round2(v) \div 10
    IN Thousands(cents \div 100) \o <<".">>
       \o (IF cents % 100 < 10 THEN <<"0">> ELSE <<>>) \o IntStr(cents % 100)

\* A plausible slip: the sum of an empty frame answered with no amount.
ScalarTextNoEmptyCase(rows, metric) == 
    Title(metric) \o S_eq \o (IF Len(rows) = 0 THEN <<>> ELSE Format2(SumMetric(rows, metric)))

\* f"{metric.title()} = {total:,.2f}", total 0.0 for an empty frame.
ScalarText(rows, metric) ==
    LET total == IF Len(rows) # 0 THEN SumMetric(rows, metric) ELSE 0
    IN Title(metric) \o S_eq \o Format2(total)

\* AskResponse
AskResponse(type, title, text, labels, datasets) ==
    [type |-> type, title |-> title, text |-> text,
     labels |-> labels, datasets |-> datasets, table |-> None]

\* A plausible slip: the trend tested before the grouping.
BranchTrendFirst(q_low, group_field) ==
    IF WantsTrend(q_low) THEN "trend"
    ELSE IF group_field # None THEN "grouped"
    ELSE "scalar"

\* Which of the three returns of route_question is taken.
Branch(q_low, group_field) ==
    IF group_field # None THEN "grouped"
    ELSE IF WantsTrend(q_low) THEN "trend"
    ELSE "scalar"

\* The grouped return: the chart of the groups in each order the sort may
\* leave them in (agg is computed once).
GroupedCharts(title, field, metric, rows) ==
    UNION { { AskResponse("chart", title, None,
                  Some([i \in 1..Len(o) |-> o[i]]),
                  Some(<<[label |-> metric,
                          data |-> [i \in 1..Len(o) |-> Round2(agg[o[i]])]]>>))
              : o \in SortValues(agg) }
            : agg \in { GroupBySum(rows, field, metric) } }

\* The monthly return.
TrendCharts(title, metric, rows) ==
    { AskResponse("chart", title \o S_Monthly, None,
          Some([i \in 1..Len(ts) |-> Strftime(ts[i].month)]),
          Some(<<[label |-> metric,
                  data |-> [i \in 1..Len(ts) |-> Round2(ts[i].value)]]>>))
      : ts \in { Resample(rows, metric) } }

\* The responses route_question may return (several only when the sort leaves
\* groups of equal sum in either order).
Responses(branch, title, group_field, metric, rows) ==
    IF branch = "grouped" THEN GroupedCharts(title, Get(group_field), metric, rows)
    ELSE IF branch = "trend" THEN TrendCharts(title, metric, rows)
    ELSE { AskResponse("text", title, Some(ScalarText(rows, metric)), None, None) }

-----------------------------------------------------------------------------
(* The inputs of the model: data rows, questions, user contexts, dates.    *)

Row(date, purchases, redemptions, assets, wholesaler, advisor, mandate_name, fund_type, rvp) ==
    [date |-> date, purchases |-> purchases, redemptions |-> redemptions,
     assets |-> assets, wholesaler |-> wholesaler, advisor |-> advisor,
     mandate_name |-> mandate_name, fund_type |-> fund_type, rvp |-> rvp]

\* The rows a data source is made of.  They lie on and around the quarter
\* boundaries of the dates in Todays, leave months without rows between them,
\* hold amounts below one cent, and spell one region owner in two cases.
Pool ==
    << Row(Date(2024, 3, 31), 4, 4, 2500, <<"S">>, <<"b">>, <<"I">>, <<"B">>,
           <<"A","L","I","C","E">>),
       Row(Date(2024, 4, 1), 4, 0, 15, <<"E">>, <<"a">>, <<"G">>, <<"Q">>,
           <<"B","o","b">>),
       Row(Date(2024, 1, 1), 1004, 250, 5000, <<"N">>, <<"a">>, <<"G">>, <<"Q">>,
           <<"A","l","i","c","e">>),
       Row(Date(2023, 12, 31), 2000, 1004, 0, <<"N">>, <<"b">>, <<"I">>, <<"B">>,
           <<"B","o","b">>) >>

\* The data sources of at most n rows: the sub-sequences of the first m rows of
\* Pool.
Datasets(n, m) ==
    { [i \in 1..Cardinality(S) |->
          Pool[CHOOSE k \in S : Cardinality({ l \in S : l < k }) = i - 1]]
      : S \in { T \in SUBSET (1..m) : Cardinality(T) <= n } }

\* What a question is built from.
Fragments ==
    { <<"B","y"," ","F","u","n","d"," ","T","y","p","e">>,
      <<"b","y"," ","w","h","o","l","e","s","a","l","e","r">>,
      <<"b","y"," ","m","a","n","d","a","t","e"," ","n","a","m","e">>,
      <<"t","r","e","n","d">>,
      <<"b","y"," ","m","o","n","t","h">>,
      <<"R","e","d","e","m","p","t","i","o","n","s">>,
      <<"p","u","r","c","h","a","s","e","s">>,
      <<"a","s","s","e","t","s">>,
      <<"R","V","P"," ","a","l","i","c","e">>,
      <<"l","a","s","t"," ","q","u","a","r","t","e","r">> }

\* The questions of at most n fragments, blank-separated.
RECURSIVE Questions(_)
Questions(n) ==
    IF n = 0 THEN { <<>> }
    ELSE Questions(n - 1)
         \cup { (IF Len(q) = 0 THEN f ELSE q \o <<" ">> \o f) :
                    q \in Questions(n - 1), f \in Fragments }

\* The user contexts: none, one without an rvp key, one whose rvp is the empty
\* string and one whose rvp is a name.
Contexts ==
    { None,
      Some([k \in {"department"} |-> StrVal(<<"m","k","t">>)]),
      Some([k \in {"rvp"} |-> StrVal(<<>>)]),
      Some([k \in {"rvp"} |-> StrVal(<<"B","O","B">>)]) }

\* The day the process runs on: in the second quarter, so that the last
\* quarter is January to March 2024 (parse_last_quarter itself is exercised on
\* every day of RefDates under SpecQuarter).
Todays == { Date(2024, 5, 15) }

\* The inputs of the concurrent specification.
ConcQuestions ==
    { <<"R","V","P"," ","a","l","i","c","e"," ">>,
      <<"R","V","P"," ","a","l","i","c","e"," ","b","y"," ","w","h","o","l","e","s","a","l","e","r">> }

-----------------------------------------------------------------------------
(* The process: the DataFrame heap, get_df and route_question.             *)

Requests == 1..NumRequests

\* A request that has been received and not started: route_question(q, user_ctx).
Started(q, user_ctx) ==
    [pc |-> "start", q |-> q, q_low |-> <<>>, ctx |-> user_ctx, df |-> None, rvp |-> None,
     result |-> None]

\* A request that is never sent.
Off ==
    [pc |-> "off", q |-> <<>>, q_low |-> <<>>, ctx |-> None, df |-> None, rvp |-> None,
     result |-> None]

\* The id a new DataFrame gets: the smallest one not in use.
NewId(h) == CHOOSE i \in 0..Cardinality(DOMAIN h) :
                i \notin DOMAIN h /\ \A j \in 0..(i - 1) : j \in DOMAIN h

\* The heap with a new DataFrame of the given rows.
Alloc(h, rows) == [i \in DOMAIN h \cup {NewId(h)} |-> IF i \in DOMAIN h THEN h[i] ELSE rows]

\* Reference counting: the heap without the DataFrames that neither the cache
\* nor a request's df refers to.
Collect(h, c, rq) ==
    LET live == { Get(c) : x \in { 1 : y \in { c } \ { None } } }
                \cup { Get(rq[r].df) : r \in { r2 \in DOMAIN rq : rq[r2].df # None } }
    IN [i \in DOMAIN h \cap live |-> h[i]]

\* route_question: `q_low = q.lower()`, and get_df: `if _DATA_CACHE is None`.
GetDfCheck(r) ==
    /\ req[r].pc = "start"
    /\ req' = [req EXCEPT ![r].pc = IF cache = None THEN "load" ELSE "copy",
                          ![r].q_low = Lower(req[r].q)]
    /\ UNCHANGED <<source, today, cache, heap, loads, ref, lq>>

\* get_df: `_DATA_CACHE = load_data()`; load_data reads the data source.
GetDfLoad(r) ==
    /\ req[r].pc = "load"
    /\ loads' = loads + 1
    /\ cache' = Some(NewId(heap))
    /\ req' = [req EXCEPT ![r].pc = "copy"]
    /\ heap' = Collect(Alloc(heap, source), cache', req')
    /\ UNCHANGED <<source, today, ref, lq>>

\* A plausible slip: `return _DATA_CACHE`, the cached frame itself.
GetDfReturnCache(r) ==
    /\ req[r].pc = "copy"
    /\ req' = [req EXCEPT ![r].pc = "rvp", ![r].df = cache]
    /\ UNCHANGED <<source, today, cache, heap, loads, ref, lq>>

\* get_df: `return _DATA_CACHE.copy()`, and `df = get_df()` in route_question.
GetDfCopy(r) ==
    /\ req[r].pc = "copy"
    /\ req' = [req EXCEPT ![r].pc = "rvp", ![r].df = Some(NewId(heap))]
    /\ heap' = Alloc(heap, heap[Get(cache)])
    /\ UNCHANGED <<source, today, cache, loads, ref, lq>>

\* route_question after get_df: the region owner is resolved and, if set,
\* df = df[mask]; the last-quarter window, df = df[mask]; grouping, metric,
\* title and the response returned.  These steps read and write the request's
\* own locals only.  The state keeps df as it is at the return statement.
Route(r) ==
    /\ req[r].pc = "rvp"
    /\ \E rvp \in { ResolveRvp(req[r].q_low, req[r].ctx) } :
       \E owned \in { IF RvpSet(rvp)
                      THEN Select(heap[Get(req[r].df)], LAMBDA row : RvpMask(row, rvp))
                      ELSE heap[Get(req[r].df)] } :
       \E w \in { ParseLastQuarter(None, today) } :
       \E rows \in { IF WantsWindow(req[r].q_low)
                     THEN Select(owned, LAMBDA row : WindowMask(row, w[1], w[2]))
                     ELSE owned } :
       \E group_field \in { GroupField(req[r].q_low) } :
       \E metric \in { Metric(req[r].q_low) } :
       \E title \in { TitleOf(req[r].q_low, rvp, group_field, metric) } :
       \E resp \in Responses(Branch(req[r].q_low, group_field), title, group_field,
                             metric, rows) :
           IF RvpSet(rvp) \/ WantsWindow(req[r].q_low)
           THEN /\ req' = [req EXCEPT ![r].pc = "done", ![r].rvp = rvp,
                                      ![r].df = Some(NewId(heap)),
                                      ![r].result = Some(resp)]
                /\ heap' = Collect(Alloc(heap, rows), cache, req')
           ELSE /\ req' = [req EXCEPT ![r].pc = "done", ![r].rvp = rvp,
                                      ![r].result = Some(resp)]
                /\ UNCHANGED heap
    /\ UNCHANGED <<source, today, cache, loads, ref, lq>>

\* A direct call parse_last_quarter(ref).
CallParseLastQuarter ==
    /\ ref # None
    /\ lq = None
    /\ lq' = Some(ParseLastQuarter(ref, today))
    /\ UNCHANGED <<source, today, cache, heap, loads, req, ref>>

EmptyHeap == [i \in {} |-> <<>>]

\* Concurrent requests against one process.
Init ==
    /\ source \in Datasets(MaxRowsConc, Len(Pool) - 1)
    /\ today = Date(2024, 5, 15)
    /\ cache = None
    /\ heap = EmptyHeap
    /\ loads = 0
    /\ req \in [Requests -> { Started(q, None) : q \in ConcQuestions }]
    /\ ref = None
    /\ lq = None

\* One request, over every question, context, data source and day.
InitRoute ==
    /\ source \in Datasets(MaxRows, Len(Pool))
    /\ today \in Todays
    /\ cache = None
    /\ heap = EmptyHeap
    /\ loads = 0
    /\ req \in { [r \in Requests |-> IF r = 1 THEN Started(q, c) ELSE Off] :
                    q \in Questions(MaxFrags), c \in Contexts }
    /\ ref = None
    /\ lq = None

\* One call of parse_last_quarter, over every reference date.
InitQuarter ==
    /\ source = <<>>
    /\ today = Date(2024, 5, 15)
    /\ cache = None
    /\ heap = EmptyHeap
    /\ loads = 0
    /\ req = [r \in Requests |-> Off]
    /\ ref \in { Some(d) : d \in RefDates }
    /\ lq = None

Next ==
    \E r \in Requests :
        \/ GetDfCheck(r)
        \/ GetDfLoad(r)
        \/ GetDfCopy(r)
        \/ Route(r)

NextQuarter == CallParseLastQuarter

Spec == Init /\ [][Next]_vars
SpecRoute == InitRoute /\ [][Next]_vars
SpecQuarter == InitQuarter /\ [][NextQuarter]_vars

-----------------------------------------------------------------------------
(* What the properties below read from a state.                            *)

Done(r) == req[r].pc = "done"
Result(r) == Get(req[r].result)
\* The rows of df at the return statement: what the response was computed on.
ReturnedRows(r) == heap[Get(req[r].df)]
Series(resp) == Get(resp.datasets)[1]
IsChart(resp) ==
    /\ resp.type = "chart"
    /\ resp.text = None
    /\ resp.labels # None
    /\ resp.datasets # None
    /\ Len(Get(resp.datasets)) = 1
    /\ Len(Series(resp).data) = Len(Get(resp.labels))
IsText(resp) ==
    resp.type = "text" /\ resp.text # None /\ resp.labels = None /\ resp.datasets = None

StartsWith(s, p) == Len(s) >= Len(p) /\ SubSeq(s, 1, Len(p)) = p

HasGroupPhrase(ql) ==
    \/ Contains(ql, P_by_fund_type)
    \/ Contains(ql, P_by_wholesaler)
    \/ Contains(ql, P_by_advisor)
    \/ Contains(ql, P_by_mandate)
HasTrendPhrase(ql) ==
    Contains(ql, P_trend) \/ Contains(ql, P_over_time) \/ Contains(ql, P_by_month)
HasWindowPhrase(ql) == Contains(ql, P_last_quarter) \/ Contains(ql, P_past_quarter)

\* The sum of a metric over the rows whose field has the value v.
SumOfGroup(rows, field, v, metric) ==
    SumMetric(SelectSeq(rows, LAMBDA row : FieldOf(row, field) = v), metric)
\* The sum of a metric over the rows of the month numbered k.
SumOfMonth(rows, k, metric) ==
    SumMetric(SelectSeq(rows, LAMBDA row : MonthIdx(row.date) = k), metric)
MonthsOf(rows) == { MonthIdx(rows[i].date) : i \in 1..Len(rows) }
\* The i-th smallest element of a set of numbers.
Nth(S, i) == CHOOSE k \in S : Cardinality({ l \in S : l < k }) = i - 1

\* resp is the chart of rows by wholesaler: the labels are the distinct
\* wholesalers, the series holds each one's sum of the metric (to 2 decimal
\* places) and is in non-increasing order.
WholesalerChart(resp, rows, metric) ==
    /\ IsChart(resp)
    /\ Series(resp).label = metric
    /\ \E labels \in { Get(resp.labels) } : \E data \in { Series(resp).data } :
        /\ { labels[i] : i \in 1..Len(labels) } = { rows[k].wholesaler : k \in 1..Len(rows) }
        /\ \A i, j \in 1..Len(labels) : i # j => labels[i] # labels[j]
        /\ \A i \in 1..Len(labels) :
               data[i] = Round2(SumOfGroup(rows, S_wholesaler, labels[i], metric))
        /\ \A i \in 1..(Len(data) - 1) : data[i] >= data[i + 1]

\* C1 as claimed: every question whose lower-cased text contains "by wholesaler",
\* whatever else it contains, is answered with the chart by wholesaler.
C1_ByWholesalerWhateverElse ==
    \A r \in Requests :
        (Done(r) /\ Contains(req[r].q_low, P_by_wholesaler))
        => WholesalerChart(Result(r), ReturnedRows(r), Metric(req[r].q_low))

\* C1 amended: every question whose lower-cased text contains "by wholesaler" and
\* does not contain "by fund type" (which is tested first) is answered with a
\* chart whose labels are the distinct wholesalers of the filtered rows, whose
\* single series holds each wholesaler's sum of the selected metric, rounded to 2
\* decimal places and aligned with the labels, in non-increasing order.
C1_ByWholesalerUnlessFundType ==
    \A r \in Requests :
        (/\ Done(r)
         /\ Contains(req[r].q_low, P_by_wholesaler)
         /\ ~Contains(req[r].q_low, P_by_fund_type))
        => WholesalerChart(Result(r), ReturnedRows(r), Metric(req[r].q_low))

\* A chart by wholesaler of several wholesalers with different sums.
C1_Witness ==
    \E r \in Requests :
        /\ Done(r)
        /\ Contains(req[r].q_low, P_by_wholesaler)
        /\ ~Contains(req[r].q_low, P_by_fund_type)
        /\ IsChart(Result(r))
        /\ Len(Series(Result(r)).data) >= 2
        /\ Series(Result(r)).data[1] > Series(Result(r)).data[2]

\* The question asks for a trend and names no grouping.
TrendOnly(r) ==
    /\ Done(r)
    /\ HasTrendPhrase(req[r].q_low)
    /\ ~HasGroupPhrase(req[r].q_low)

\* C2 as claimed: the monthly trend has one label per calendar month that occurs
\* among the filtered rows and no other, in chronological order, each value the
\* sum of the metric over that month's rows (to 2 decimal places).
C2_OnlyMonthsWithRows ==
    \A r \in Requests :
        TrendOnly(r) =>
            /\ IsChart(Result(r))
            /\ \E months \in { MonthsOf(ReturnedRows(r)) } :
               \E labels \in { Get(Result(r).labels) } :
                /\ Len(labels) = Cardinality(months)
                /\ \A i \in 1..Len(labels) :
                    /\ labels[i] = Strftime(Nth(months, i))
                    /\ Series(Result(r)).data[i] =
                           Round2(SumOfMonth(ReturnedRows(r), Nth(months, i),
                                             Series(Result(r)).label))

\* C2 amended: the monthly trend has one label per calendar month from the
\* earliest to the latest month of the filtered rows, months without rows
\* included (with value 0), in chronological order, each value the sum of the
\* metric over that month's rows to 2 decimal places; no label for no rows.
C2_EveryMonthOfTheSpan ==
    \A r \in Requests :
        TrendOnly(r) =>
            /\ IsChart(Result(r))
            /\ Series(Result(r)).label = Metric(req[r].q_low)
            /\ \E months \in { MonthsOf(ReturnedRows(r)) } :
               \E labels \in { Get(Result(r).labels) } :
                IF months = {} THEN labels = <<>>
                ELSE \E lo \in months : \E hi \in months :
                        /\ \A k \in months : lo <= k /\ k <= hi
                        /\ Len(labels) = hi - lo + 1
                        /\ \A i \in 1..Len(labels) :
                            /\ labels[i] = Strftime(lo + i - 1)
                            /\ Series(Result(r)).data[i] =
                                   Round2(SumOfMonth(ReturnedRows(r), lo + i - 1,
                                                     Series(Result(r)).label))

\* A trend with a bucket for a month that has no row.
C2_Witness ==
    \E r \in Requests :
        /\ TrendOnly(r)
        /\ IsChart(Result(r))
        /\ Len(Get(Result(r).labels)) > Cardinality(MonthsOf(ReturnedRows(r)))

\* The number of the day in the proleptic Gregorian calendar (days from civil).
DayNum(d) ==
    LET y == IF d.month <= 2 THEN d.year - 1 ELSE d.year
        era == y \div 400
        yoe == y - era * 400
        mp == IF d.month > 2 THEN d.month - 3 ELSE d.month + 9
        doy == ((153 * mp + 2) \div 5) + d.day - 1
        doe == yoe * 365 + (yoe \div 4) - (yoe \div 100) + doy
    IN era * 146097 + doe

\* C3: parse_last_quarter(ref) returns the first day of the first month and the
\* last calendar day of the third month of the quarter before the one containing
\* ref: Q4 of the year before when ref is in Q1, quarter q-1 of the same year
\* otherwise; end is the day before the first day of ref's quarter, never start.
C3_LastQuarter ==
    lq # None =>
        \E d \in { Get(ref) } : \E start \in { Get(lq)[1] } : \E end \in { Get(lq)[2] } :
        \E q \in { ((d.month - 1) \div 3) + 1 } :
            /\ start.day = 1
            /\ q = 1 => (start.year = d.year - 1 /\ start.month = 10)
            /\ q > 1 => (start.year = d.year /\ start.month = 3 * (q - 2) + 1)
            /\ end.year = start.year
            /\ end.month = start.month + 2
            /\ end.day >= 1 /\ end.day <= DaysInMonth(end.year, end.month)
            /\ DayNum(end) + 1 = DayNum(Date(d.year, 3 * (q - 1) + 1, 1))
            /\ end # start
            /\ d = Date(2024, 5, 15) => (start = Date(2024, 1, 1) /\ end = Date(2024, 3, 31))
            /\ d = Date(2024, 1, 15) => (start = Date(2023, 10, 1) /\ end = Date(2023, 12, 31))

\* parse_last_quarter has returned for a reference date in the first quarter.
C3_Witness == lq # None /\ Get(ref).month <= 3 /\ Get(lq)[2].month = 12

\* The grouping phrases of a question.
GroupPhrases == { P_by_fund_type, P_by_wholesaler, P_by_advisor, P_by_mandate_name, P_by_mandate }

\* q2 is q1 without its grouping phrase.
WithoutGrouping(q1, q2) ==
    /\ ~HasGroupPhrase(Lower(q2))
    /\ \E p \in GroupPhrases : \E i \in 1..Len(q1) :
        /\ i + Len(p) - 1 <= Len(q1)
        /\ SubSeq(Lower(q1), i, i + Len(p) - 1) = p
        /\ q2 = SubSeq(q1, 1, i - 1) \o SubSeq(q1, i + Len(p), Len(q1))

\* C4 as claimed: the values of the chart returned for a question with a
\* grouping phrase sum to the total reported by the text returned for the same
\* question without the grouping phrase (same metric, filter and window).
C4_RoundTrip ==
    \A r1, r2 \in Requests :
        (/\ Done(r1) /\ Done(r2)
         /\ req[r1].ctx = req[r2].ctx
         /\ WithoutGrouping(req[r1].q, req[r2].q)
         /\ IsChart(Result(r1))
         /\ IsText(Result(r2)))
        => Get(Result(r2).text) =
               Title(Series(Result(r1)).label) \o S_eq
               \o Format2(SumSeq(Series(Result(r1)).data))

\* The values of field in rows.
ValuesOf(rows, field) == { FieldOf(rows[i], field) : i \in 1..Len(rows) }

\* C5: a question with both a grouping phrase and a trend phrase is answered
\* with the grouped breakdown: a chart whose labels are the values of a grouping
\* column and whose title has no " (Monthly)" suffix, never the monthly series.
C5_GroupingBeforeTrend ==
    \A r \in Requests :
        (/\ Done(r)
         /\ HasGroupPhrase(req[r].q_low)
         /\ HasTrendPhrase(req[r].q_low))
        => /\ IsChart(Result(r))
           /\ ~EndsWith(Result(r).title, S_Monthly)
           /\ \E field \in { S_fund_type, S_wholesaler, S_advisor, S_mandate_name } :
               /\ EndsWith(Result(r).title, S_by \o Title(ReplaceUnderscore(field)))
               /\ { Get(Result(r).labels)[i] : i \in 1..Len(Get(Result(r).labels)) }
                      = ValuesOf(ReturnedRows(r), field)

\* A grouped breakdown returned for a question that also asks for a trend.
C5_Witness ==
    \E r \in Requests :
        /\ Done(r)
        /\ HasGroupPhrase(req[r].q_low)
        /\ HasTrendPhrase(req[r].q_low)
        /\ IsChart(Result(r))
        /\ Len(Get(Result(r).labels)) >= 2

\* ql holds "rvp" at i, blanks up to j, and a whole alphabetic word up to k.
RvpAt(ql, i) == i + 2 <= Len(ql) /\ SubSeq(ql, i, i + 2) = P_rvp
BlanksTo(ql, i, j) == j >= i + 3 /\ \A x \in (i + 3)..j : IsSpace(ql[x])
WordTo(ql, j, k) ==
    /\ k >= j + 1
    /\ \A x \in (j + 1)..k : IsAlpha(ql[x])
    /\ (k = Len(ql) \/ ~IsAlpha(ql[k + 1]))
\* ql holds "rvp <word>" at i.
Mentions(ql, i) ==
    /\ RvpAt(ql, i)
    /\ \E j \in (i + 3)..Len(ql) :
           BlanksTo(ql, i, j) /\ \E k \in (j + 1)..Len(ql) : WordTo(ql, j, k)
HasMention(ql) == \E i \in 1..Len(ql) : Mentions(ql, i)
\* word is the word of the first "rvp <word>" of ql.
FirstMention(ql, word) ==
    \E i \in 1..Len(ql) :
        /\ Mentions(ql, i)
        /\ \A i2 \in 1..(i - 1) : ~Mentions(ql, i2)
        /\ \E j \in (i + 3)..Len(ql) :
               /\ BlanksTo(ql, i, j)
               /\ \E k \in (j + 1)..Len(ql) :
                      WordTo(ql, j, k) /\ word = SubSeq(ql, j + 1, k)

CtxHasRvp(c) == c # None /\ "rvp" \in DOMAIN Get(c)

\* The source rows whose region owner equals v whatever the case, and within
\* the last quarter if the question asks for it.
RowsOwnedBy(v, ql) ==
    CHOOSE rows \in
        { SelectSeq(source,
              LAMBDA row : /\ Lower(row.rvp) = lv
                           /\ w # None => WindowMask(row, Get(w)[1], Get(w)[2]))
          : lv \in { Lower(v) },
            w \in { IF HasWindowPhrase(ql)
                    THEN Some(ParseLastQuarter(None, today)) ELSE None } } : TRUE
\* The source rows, within the last quarter if the question asks for it.
RowsUnfiltered(ql) ==
    CHOOSE rows \in
        { SelectSeq(source,
              LAMBDA row : w # None => WindowMask(row, Get(w)[1], Get(w)[2]))
          : w \in { IF HasWindowPhrase(ql)
                    THEN Some(ParseLastQuarter(None, today)) ELSE None } } : TRUE

\* Request r filtered by the region owner v.
FilteredBy(r, v, ql) == req[r].rvp = Some(v) /\ ReturnedRows(r) = RowsOwnedBy(v, ql)
\* Request r applied no region-owner filter.
Unfiltered(r, ql) == req[r].rvp = None /\ ReturnedRows(r) = RowsUnfiltered(ql)

\* C6 as claimed: the word after "rvp" in the question, title-cased, is the
\* filter value; otherwise the string value of the context's rvp key, for every
\* value it may hold; otherwise no filter.  The rows retained are exactly those
\* whose region owner equals the filter value, case-insensitively.
C6_ContextValueAlways ==
    \A r \in Requests :
        Done(r) =>
            \E ql \in { req[r].q_low } :
                IF HasMention(ql)
                THEN \E v \in { Get(req[r].rvp) } :
                        FirstMention(ql, Lower(v)) /\ v = Title(v) /\ FilteredBy(r, v, ql)
                ELSE IF CtxHasRvp(req[r].ctx)
                THEN FilteredBy(r, Str(Get(req[r].ctx)["rvp"]), ql)
                ELSE Unfiltered(r, ql)

\* C6 amended: the word after "rvp" in the question, title-cased, is the filter
\* value, whatever the context holds; otherwise, if the context supplies an rvp
\* key whose value is truthy (a non-empty string), the filter value is that
\* value's string; otherwise (no context, no rvp key, or an empty or otherwise
\* falsy value) no filter is applied.  When a filter value is set, exactly the
\* rows whose region owner equals it case-insensitively are retained.
C6_ContextValueIfTruthy ==
    \A r \in Requests :
        Done(r) =>
            \E ql \in { req[r].q_low } :
                IF HasMention(ql)
                THEN \E v \in { Get(req[r].rvp) } :
                        FirstMention(ql, Lower(v)) /\ v = Title(v) /\ FilteredBy(r, v, ql)
                ELSE IF CtxHasRvp(req[r].ctx) /\ Truthy(Get(req[r].ctx)["rvp"])
                THEN FilteredBy(r, Str(Get(req[r].ctx)["rvp"]), ql)
                ELSE Unfiltered(r, ql)

\* A question that names a region owner, asked with a context that names
\* another one: the question's owner filtered the rows.
C6_Witness ==
    \E r \in Requests :
        /\ Done(r)
        /\ HasMention(req[r].q_low)
        /\ CtxHasRvp(req[r].ctx) /\ Truthy(Get(req[r].ctx)["rvp"])
        /\ req[r].rvp # None
        /\ Lower(Get(req[r].rvp)) # Lower(Str(Get(req[r].ctx)["rvp"]))
        /\ Len(ReturnedRows(r)) > 0
        /\ Len(ReturnedRows(r)) < Len(source)

S_zero == <<"0", ".", "0", "0">>

\* C7: when the filter or the window leaves no row, route_question returns in
\* every branch (the branch a waiting request takes has a response to give on
\* no row): the scalar branch a text with total 0.00, the grouped and the trend
\* branch a chart with no label and an empty series.
C7_EmptyIsNotAnError ==
    \A r \in Requests :
        /\ req[r].pc = "rvp" =>
            \E ql \in { req[r].q_low } :
                Responses(Branch(ql, GroupField(ql)), Title(Metric(ql)),
                          GroupField(ql), Metric(ql), <<>>) # {}
        /\ (Done(r) /\ Len(ReturnedRows(r)) = 0) =>
            \E ql \in { req[r].q_low } :
                IF HasGroupPhrase(ql) \/ HasTrendPhrase(ql)
                THEN /\ IsChart(Result(r))
                     /\ Get(Result(r).labels) = <<>>
                     /\ Series(Result(r)).data = <<>>
                ELSE /\ IsText(Result(r))
                     /\ Get(Result(r).text) = Title(Metric(ql)) \o S_eq \o S_zero

\* A request answered on no row of a data source that has rows: a scalar one.
C7_Witness ==
    \E r \in Requests :
        /\ Done(r)
        /\ Len(source) > 0
        /\ Len(ReturnedRows(r)) = 0
        /\ req[r].rvp # None
        /\ IsText(Result(r))

\* The responses route_question(q, user_ctx) gives when it runs alone on the
\* rows of the data source.
Alone(q, user_ctx) ==
    UNION { UNION { UNION { Responses(Branch(ql, group_field),
                                      TitleOf(ql, rvp, group_field, metric),
                                      group_field, metric, rows)
                            : rows \in { IF rvp = None
                                         THEN RowsUnfiltered(ql)
                                         ELSE RowsOwnedBy(Get(rvp), ql) } }
                    : rvp \in { ResolveRvp(ql, user_ctx) },
                      group_field \in { GroupField(ql) },
                      metric \in { Metric(ql) } }
            : ql \in { Lower(q) } }

\* C8: under any interleaving of requests, the cached snapshot holds the rows it
\* was loaded with, no request's frame is the cached frame or another request's
\* frame, and each response is one the request gets running alone on the full
\* snapshot.
C8_SnapshotIsolation ==
    /\ cache # None => heap[Get(cache)] = source
    /\ \A r \in Requests :
        req[r].df # None =>
            /\ req[r].df # cache
            /\ \A r2 \in Requests \ {r} : req[r2].df # req[r].df
    /\ \A r \in Requests :
        Done(r) => Result(r) \in Alone(req[r].q, req[r].ctx)

\* A request has narrowed its frame and returned; another one, having copied the
\* snapshot afterwards or meanwhile, holds all of its rows.
C8_Witness ==
    \E r1, r2 \in Requests :
        /\ Done(r1)
        /\ Len(ReturnedRows(r1)) < Len(source)
        /\ req[r2].pc = "rvp"
        /\ heap[Get(req[r2].df)] = source
        /\ heap[Get(cache)] = source

\* The metric a response reports.
ReportsMetric(resp, metric) ==
    /\ StartsWith(resp.title, Title(metric))
    /\ IF resp.type = "chart" THEN Series(resp).label = metric
       ELSE StartsWith(Get(resp.text), Title(metric) \o S_eq)

\* No rule fires: no metric, filter, window, grouping or trend phrase.
NoRuleFires(ql, user_ctx) ==
    /\ ~Contains(ql, P_redemption) /\ ~Contains(ql, P_purchase) /\ ~Contains(ql, P_asset)
    /\ ~HasMention(ql) /\ ~CtxHasRvp(user_ctx)
    /\ ~HasWindowPhrase(ql) /\ ~HasGroupPhrase(ql) /\ ~HasTrendPhrase(ql)

\* C9: the metric is redemptions if the lower-cased question contains
\* "redemption", else purchases if it contains "purchase", else assets if it
\* contains "asset", else purchases; a question in which no rule fires is
\* answered with a text holding the sum of purchases over the whole data source.
C9_MetricFirstMatch ==
    \A r \in Requests :
        Done(r) =>
            \E ql \in { req[r].q_low } :
                /\ Contains(ql, P_redemption) => ReportsMetric(Result(r), S_redemptions)
                /\ (~Contains(ql, P_redemption) /\ Contains(ql, P_purchase))
                       => ReportsMetric(Result(r), S_purchases)
                /\ (~Contains(ql, P_redemption) /\ ~Contains(ql, P_purchase)
                        /\ Contains(ql, P_asset))
                       => ReportsMetric(Result(r), S_assets)
                /\ (~Contains(ql, P_redemption) /\ ~Contains(ql, P_purchase)
                        /\ ~Contains(ql, P_asset))
                       => ReportsMetric(Result(r), S_purchases)
                /\ NoRuleFires(ql, req[r].ctx) =>
                       /\ IsText(Result(r))
                       /\ Get(Result(r).text) =
                              Title(S_purchases) \o S_eq
                              \o Format2(SumMetric(source, S_purchases))

\* A question that names redemptions after purchases is answered on redemptions.
C9_Witness ==
    \E r \in Requests :
        /\ Done(r)
        /\ Contains(req[r].q_low, P_redemption)
        /\ Contains(req[r].q_low, P_purchase)
        /\ Len(ReturnedRows(r)) > 0
        /\ ReportsMetric(Result(r), S_redemptions)

\* C10 as claimed: load_data is invoked at most once, and once _DATA_CACHE is
\* set it is never assigned again.
C10_LoadedOnce ==
    [][loads' <= 1 /\ (cache # None => cache' = cache)]_vars
====
